---- MODULE Spec2Model ----
(***************************************************************************)
(* Model of src/extrator_portal.py: the batch orchestrator                 *)
(* executar_extracao, the helpers it calls and the exit status of main.    *)
(*                                                                         *)
(* Text is a sequence of tokens: the characters of an identifier are one   *)
(* token each, fixed literals of the source ("ok", "erro: ", a class name) *)
(* are one token.  A file is the sequence of tokens written to it.         *)
(***************************************************************************)
EXTENDS Integers, Sequences, FiniteSets, TLC

\* ------------------------------------------------------------------ bounds
\* Largest number of rows of the input sheet.
MaxRows == 2
\* Largest number of logical names absent from the selector file.
MaxMissing == 1
\* Largest number of bytes a failing write leaves in the stream log.
MaxCorte == 6

\* ------------------------------------------------------------ text helpers
NL == "\n"
SEP == ";"
\* The characters str.strip() removes (those for which str.isspace() holds):
\* tab, line feed, vertical tab, form feed, carriage return, U+001C to
\* U+001F, the space, U+0085, U+00A0, U+1680, U+2000 to U+200A, U+2028,
\* U+2029, U+202F, U+205F and U+3000.  A character that cannot be written
\* in a string here is the token that names its code point.
Brancos ==
  {"\t", "\n", "", "\f", "\r", "", "", "", "", " ", "", " ", " ",
   "U+2000", "U+2001", "U+2002", "U+2003", "U+2004", "U+2005", "U+2006",
   "U+2007", "U+2008", "U+2009", "U+200A", "U+2028", "U+2029", "U+202F",
   "U+205F", "U+3000"}

\* str.strip(): drop leading and trailing whitespace.
RECURSIVE LStrip(_)
LStrip(s) ==
  IF s = <<>> THEN <<>>
  ELSE IF Head(s) \in Brancos THEN LStrip(Tail(s)) ELSE s

RECURSIVE RStrip(_)
RStrip(s) ==
  IF s = <<>> THEN <<>>
  ELSE IF s[Len(s)] \in Brancos THEN RStrip(SubSeq(s, 1, Len(s) - 1)) ELSE s

Strip(s) == RStrip(LStrip(s))

\* Cells of the 'CPF' column as pandas hands them over: text, an integer,
\* or NaN for a cell with no value.  Text and digits are one token a
\* character.
NaN == [t |-> "nan", v |-> <<>>]
Texto(s) == [t |-> "str", v |-> s]
Inteiro(d) == [t |-> "int", v |-> d]

\* The cells considered: no value, blanks only, an identifier with a blank
\* before it, an integer, an identifier with a line break inside (a cell of
\* two lines) and one with the separator of the stream log inside.
Celulas ==
  {NaN, Texto(<<" ">>), Texto(<<"\t", "1">>), Inteiro(<<"2">>),
   Texto(<<"1", NL, "2">>), Texto(<<"1", SEP, "2">>)}

\* str(x) of a cell value: text is itself, an integer its digits, NaN "nan".
PyStr(c) ==
  CASE c.t = "str" -> c.v
    [] c.t = "int" -> c.v
    [] c.t = "nan" -> <<"n", "a", "n">>

\* Rows are dicts; to_dict("records") gives every row the key "CPF".
RegistroDe(c) == [CPF |-> c]

\* Line 312: cpf = str(row.get("CPF", "")).strip()
CpfDaLinha(row) ==
  IF "CPF" \in DOMAIN row THEN Strip(PyStr(row.CPF)) ELSE Strip(<<>>)

\* ------------------------------------------------------------------- paths
\* A path is its sequence of components; os.path.dirname drops the last.
Dirname(p) == SubSeq(p, 1, Len(p) - 1)

\* os.makedirs(d, exist_ok=True): the empty path raises FileNotFoundError.
MakedirsExc(d) == IF d = <<>> THEN "FileNotFoundError" ELSE "none"

Caminhos(nome) == {<<nome>>, <<"dados", nome>>}

\* -------------------------------------------------------------- stream log
\* Line 211: the header line.
Cabecalho == <<"cpf", SEP, "status", SEP, "mensagem", NL>>

\* Line 219: linha = f"{cpf};{status};{mensagem}\n"
FormatarLinha(c, st, msg) == c \o <<SEP, st, SEP>> \o msg \o <<NL>>

\* ---- bytes of the encoded text (encoding="utf-8", lines 210 and 220)
\* The characters UTF-8 encodes in one byte that a text here may hold: the
\* printable ASCII characters and the ASCII whitespace ("U+0060" names the
\* grave accent).
Ascii ==
  {"\t", "\n", "", "\f", "\r", "", "", "", "", " ", "!", "\"", "#",
   "$", "%", "&", "'", "(", ")", "*", "+", ",", "-", ".", "/", "0", "1",
   "2", "3", "4", "5", "6", "7", "8", "9", ":", ";", "<", "=", ">", "?",
   "@", "A", "B", "C", "D", "E", "F", "G", "H", "I", "J", "K", "L", "M",
   "N", "O", "P", "Q", "R", "S", "T", "U", "V", "W", "X", "Y", "Z", "[",
   "\\", "]", "^", "_", "U+0060", "a", "b", "c", "d", "e", "f", "g", "h", "i",
   "j", "k", "l", "m", "n", "o", "p", "q", "r", "s", "t", "u", "v", "w",
   "x", "y", "z", "{", "|", "}", "~"}

\* The tokens that name a byte that is no character: what a write cut inside
\* a character leaves in the file.
BytesSoltos ==
  {"0x80", "0x81", "0x82", "0x83", "0x84", "0x85", "0x86", "0x87", "0x88",
   "0x89", "0x8A", "0x8B", "0x8C", "0x8D", "0x8E", "0x8F", "0x90", "0x91",
   "0x92", "0x93", "0x94", "0x95", "0x96", "0x97", "0x98", "0x99", "0x9A",
   "0x9B", "0x9C", "0x9D", "0x9E", "0x9F", "0xA0", "0xA1", "0xA2", "0xA3",
   "0xA4", "0xA5", "0xA6", "0xA7", "0xA8", "0xA9", "0xAA", "0xAB", "0xAC",
   "0xAD", "0xAE", "0xAF", "0xB0", "0xB1", "0xB2", "0xB3", "0xB4", "0xB5",
   "0xB6", "0xB7", "0xB8", "0xB9", "0xBA", "0xBB", "0xBC", "0xBD", "0xBE",
   "0xBF", "0xC0", "0xC1", "0xC2", "0xC3", "0xC4", "0xC5", "0xC6", "0xC7",
   "0xC8", "0xC9", "0xCA", "0xCB", "0xCC", "0xCD", "0xCE", "0xCF", "0xD0",
   "0xD1", "0xD2", "0xD3", "0xD4", "0xD5", "0xD6", "0xD7", "0xD8", "0xD9",
   "0xDA", "0xDB", "0xDC", "0xDD", "0xDE", "0xDF", "0xE0", "0xE1", "0xE2",
   "0xE3", "0xE4", "0xE5", "0xE6", "0xE7", "0xE8", "0xE9", "0xEA", "0xEB",
   "0xEC", "0xED", "0xEE", "0xEF", "0xF0", "0xF1", "0xF2", "0xF3", "0xF4",
   "0xF5", "0xF6", "0xF7", "0xF8", "0xF9", "0xFA", "0xFB", "0xFC", "0xFD",
   "0xFE", "0xFF"}

\* The proper beginnings of a token of more than one byte, by number of
\* bytes: Fragmentos(tok)[n] is the text of its first n bytes.  A cut inside
\* a character leaves bytes that are no character: each is the token that
\* names it.  The entries are the fixed texts of the source (header fields,
\* statuses, messages, exception class names), the whitespace characters
\* outside ASCII, and the tokens of one byte, which have no proper beginning.
\* Of any other token the bytes are not defined.
Fragmentos(tok) ==
  CASE tok = "cpf" ->
         <<<<"c">>, <<"cp">>>>
    [] tok = "status" ->
         <<<<"s">>, <<"st">>, <<"sta">>, <<"stat">>, <<"statu">>>>
    [] tok = "mensagem" ->
         <<<<"m">>, <<"me">>, <<"men">>, <<"mens">>, <<"mensa">>,
           <<"mensag">>, <<"mensage">>>>
    [] tok = "ok" ->
         <<<<"o">>>>
    [] tok = "erro" ->
         <<<<"e">>, <<"er">>, <<"err">>>>
    [] tok = "extração concluída" ->
         <<<<"e">>, <<"ex">>, <<"ext">>, <<"extr">>, <<"extra">>,
           <<"extra", "0xC3">>, <<"extraç">>, <<"extraç", "0xC3">>,
           <<"extraçã">>, <<"extração">>, <<"extração ">>, <<"extração c">>,
           <<"extração co">>, <<"extração con">>, <<"extração conc">>,
           <<"extração concl">>, <<"extração conclu">>,
           <<"extração conclu", "0xC3">>, <<"extração concluí">>,
           <<"extração concluíd">>>>
    [] tok = "erro: " ->
         <<<<"e">>, <<"er">>, <<"err">>, <<"erro">>, <<"erro:">>>>
    [] tok = "KeyError" ->
         <<<<"K">>, <<"Ke">>, <<"Key">>, <<"KeyE">>, <<"KeyEr">>,
           <<"KeyErr">>, <<"KeyErro">>>>
    [] tok = "TimeoutException" ->
         <<<<"T">>, <<"Ti">>, <<"Tim">>, <<"Time">>, <<"Timeo">>,
           <<"Timeou">>, <<"Timeout">>, <<"TimeoutE">>, <<"TimeoutEx">>,
           <<"TimeoutExc">>, <<"TimeoutExce">>, <<"TimeoutExcep">>,
           <<"TimeoutExcept">>, <<"TimeoutExcepti">>, <<"TimeoutExceptio">>>>
    [] tok = "NoSuchElementException" ->
         <<<<"N">>, <<"No">>, <<"NoS">>, <<"NoSu">>, <<"NoSuc">>,
           <<"NoSuch">>, <<"NoSuchE">>, <<"NoSuchEl">>, <<"NoSuchEle">>,
           <<"NoSuchElem">>, <<"NoSuchEleme">>, <<"NoSuchElemen">>,
           <<"NoSuchElement">>, <<"NoSuchElementE">>, <<"NoSuchElementEx">>,
           <<"NoSuchElementExc">>, <<"NoSuchElementExce">>,
           <<"NoSuchElementExcep">>, <<"NoSuchElementExcept">>,
           <<"NoSuchElementExcepti">>, <<"NoSuchElementExceptio">>>>
    [] tok = "" -> <<<<"0xC2">>>>
    [] tok = " " -> <<<<"0xC2">>>>
    [] tok = " " -> <<<<"0xE1">>, <<"0xE1", "0x9A">>>>
    [] tok = "U+2000" -> <<<<"0xE2">>, <<"0xE2", "0x80">>>>
    [] tok = "U+2001" -> <<<<"0xE2">>, <<"0xE2", "0x80">>>>
    [] tok = "U+2002" -> <<<<"0xE2">>, <<"0xE2", "0x80">>>>
    [] tok = "U+2003" -> <<<<"0xE2">>, <<"0xE2", "0x80">>>>
    [] tok = "U+2004" -> <<<<"0xE2">>, <<"0xE2", "0x80">>>>
    [] tok = "U+2005" -> <<<<"0xE2">>, <<"0xE2", "0x80">>>>
    [] tok = "U+2006" -> <<<<"0xE2">>, <<"0xE2", "0x80">>>>
    [] tok = "U+2007" -> <<<<"0xE2">>, <<"0xE2", "0x80">>>>
    [] tok = "U+2008" -> <<<<"0xE2">>, <<"0xE2", "0x80">>>>
    [] tok = "U+2009" -> <<<<"0xE2">>, <<"0xE2", "0x80">>>>
    [] tok = "U+200A" -> <<<<"0xE2">>, <<"0xE2", "0x80">>>>
    [] tok = "U+2028" -> <<<<"0xE2">>, <<"0xE2", "0x80">>>>
    [] tok = "U+2029" -> <<<<"0xE2">>, <<"0xE2", "0x80">>>>
    [] tok = "U+202F" -> <<<<"0xE2">>, <<"0xE2", "0x80">>>>
    [] tok = "U+205F" -> <<<<"0xE2">>, <<"0xE2", "0x81">>>>
    [] tok = "U+3000" -> <<<<"0xE3">>, <<"0xE3", "0x80">>>>
    [] tok \in Ascii \cup BytesSoltos -> <<>>

\* The number of bytes of a token.
BytesDe(tok) == Len(Fragmentos(tok)) + 1

\* The number of bytes of a text.
RECURSIVE TotalDeBytes(_)
TotalDeBytes(txt) ==
  IF txt = <<>> THEN 0 ELSE BytesDe(Head(txt)) + TotalDeBytes(Tail(txt))

\* The first n bytes of a text.
RECURSIVE PrimeirosBytes(_, _)
PrimeirosBytes(txt, n) ==
  IF n = 0 \/ txt = <<>> THEN <<>>
  ELSE IF n >= BytesDe(Head(txt))
       THEN <<Head(txt)>> \o PrimeirosBytes(Tail(txt), n - BytesDe(Head(txt)))
       ELSE Fragmentos(Head(txt))[n]

\* The lines of a file's content: maximal runs of tokens between newlines.
RECURSIVE LinhasDe(_, _)
LinhasDe(txt, atual) ==
  IF txt = <<>> THEN (IF atual = <<>> THEN <<>> ELSE <<atual>>)
  ELSE IF Head(txt) = NL THEN <<atual>> \o LinhasDe(Tail(txt), <<>>)
  ELSE LinhasDe(Tail(txt), Append(atual, Head(txt)))

Linhas(txt) == LinhasDe(txt, <<>>)

\* The fields of a line: maximal runs of tokens between separators.
RECURSIVE CamposDe(_, _)
CamposDe(l, atual) ==
  IF l = <<>> THEN <<atual>>
  ELSE IF Head(l) = SEP THEN <<atual>> \o CamposDe(Tail(l), <<>>)
  ELSE CamposDe(Tail(l), Append(atual, Head(l)))

Campos(l) == CamposDe(l, <<>>)

\* The data lines of the stream log: every line after the first.
LinhasDeDados(txt) ==
  LET ls == Linhas(txt) IN IF ls = <<>> THEN <<>> ELSE Tail(ls)

\* --------------------------------------------------------------- selectors
\* The logical names the code reads from the selector map.
ChavesLogin == {"campo_usuario", "campo_senha", "botao_entrar", "menu_cadastro"}
ChavesNavegacao == {"menu_cadastro", "menu_proposta"}
ChavesRegistro == {"campo_cpf", "botao_consultar", "grid_resultados"}
TodasChaves == ChavesLogin \cup ChavesNavegacao \cup ChavesRegistro

\* The selector maps considered: the key sets lacking at most MaxMissing names.
\* Only the presence of a key matters to control flow, so a map is its key set.
MapasDeSeletores ==
  {TodasChaves \ m : m \in {x \in SUBSET TodasChaves : Cardinality(x) <= MaxMissing}}

\* What the selector file holds: nothing (no file), text that is not JSON, a
\* JSON value that is not an object, or an object.
ArquivosDeSeletores ==
  {[tipo |-> "ausente", chaves |-> {}], [tipo |-> "invalido", chaves |-> {}],
   [tipo |-> "lista", chaves |-> {}]}
    \cup {[tipo |-> "dict", chaves |-> m] : m \in MapasDeSeletores}

\* Lines 94-103: the exception carregar_selectors raises, or "none".
CarregarSelectorsExc(arq) ==
  CASE arq.tipo = "ausente" -> "FileNotFoundError"
    [] arq.tipo = "invalido" -> "JSONDecodeError"
    [] arq.tipo = "lista" -> "ValueError"
    [] OTHER -> "none"

\* ----------------------------------------------------------------- browser
\* Each browser call is resolved by the page: vis is the set of logical
\* names whose element shows up (present, clickable) within the timeout.

\* Lines 133-154: the exception login raises, or "none".  sel[...] is
\* evaluated before the call that uses it, so a missing key raises KeyError
\* before the wait or the lookup starts.
LoginExc(sel, vis) ==
  CASE "campo_usuario" \notin sel -> "KeyError"
    [] "campo_usuario" \in sel /\ "campo_usuario" \notin vis -> "TimeoutException"
    [] OTHER ->
      CASE "campo_senha" \notin sel -> "KeyError"
        [] "campo_senha" \in sel /\ "campo_senha" \notin vis -> "NoSuchElementException"
        [] OTHER ->
          CASE "botao_entrar" \notin sel -> "KeyError"
            [] "botao_entrar" \in sel /\ "botao_entrar" \notin vis -> "NoSuchElementException"
            [] OTHER ->
              CASE "menu_cadastro" \notin sel -> "KeyError"
                [] "menu_cadastro" \in sel /\ "menu_cadastro" \notin vis -> "TimeoutException"
                [] OTHER -> "none"

\* Lines 163-173: the exception navegar_para_modulo_consulta raises, or "none".
NavegarExc(sel, vis) ==
  CASE "menu_cadastro" \notin sel -> "KeyError"
    [] "menu_cadastro" \in sel /\ "menu_cadastro" \notin vis -> "TimeoutException"
    [] OTHER ->
      CASE "menu_proposta" \notin sel -> "KeyError"
        [] "menu_proposta" \in sel /\ "menu_proposta" \notin vis -> "TimeoutException"
        [] OTHER -> "none"

Nulo == <<>>

\* Lines 255-270: the wait for the results grid and the placeholder result.
\* feitas are the browser calls made so far for this record.
AguardarGrade(sel, vis, c, feitas) ==
  CASE "grid_resultados" \notin sel ->
         [exc |-> "KeyError", acoes |-> feitas, dados |-> Nulo]
    [] "grid_resultados" \in sel /\ "grid_resultados" \notin vis ->
         [exc |-> "TimeoutException", acoes |-> Append(feitas, "wait_grid"),
          dados |-> Nulo]
    [] OTHER ->
         [exc |-> "none", acoes |-> Append(feitas, "wait_grid"),
          dados |-> <<[CPF |-> c, Status |-> "ok", ParcelasPagas |-> <<12>>,
                       Saldo |-> <<1235>>]>>]

\* Lines 238-270 with the lookup of the submit control guarded: when the
\* control is not found the field is blurred instead and the grid awaited.
ExtrairDadosParaCpfComFallback(sel, vis, c) ==
  CASE "campo_cpf" \notin sel ->
         [exc |-> "KeyError", acoes |-> <<>>, dados |-> Nulo]
    [] "campo_cpf" \in sel /\ "campo_cpf" \notin vis ->
         [exc |-> "TimeoutException", acoes |-> <<"wait_campo_cpf">>, dados |-> Nulo]
    [] OTHER ->
      LET preenchido == <<"wait_campo_cpf", "clear", "send_keys">> IN
      IF "botao_consultar" \in sel
      THEN IF "botao_consultar" \notin vis
           THEN AguardarGrade(sel, vis, c,
                  preenchido \o <<"find_botao_consultar", "blur">>)
           ELSE AguardarGrade(sel, vis, c,
                  preenchido \o <<"find_botao_consultar", "click">>)
      ELSE AguardarGrade(sel, vis, c, Append(preenchido, "blur"))

\* Lines 238-270: extrair_dados_para_cpf. exc is the exception raised or
\* "none"; dados is <<the returned dict>> when it returns.
ExtrairDadosParaCpf(sel, vis, c) ==
  CASE "campo_cpf" \notin sel ->
         [exc |-> "KeyError", acoes |-> <<>>, dados |-> Nulo]
    [] "campo_cpf" \in sel /\ "campo_cpf" \notin vis ->
         [exc |-> "TimeoutException", acoes |-> <<"wait_campo_cpf">>, dados |-> Nulo]
    [] OTHER ->
      LET preenchido == <<"wait_campo_cpf", "clear", "send_keys">> IN
      IF "botao_consultar" \in sel
      THEN IF "botao_consultar" \notin vis
           THEN [exc |-> "NoSuchElementException",
                 acoes |-> Append(preenchido, "find_botao_consultar"),
                 dados |-> Nulo]
           ELSE AguardarGrade(sel, vis, c,
                  preenchido \o <<"find_botao_consultar", "click">>)
      ELSE AguardarGrade(sel, vis, c, Append(preenchido, "blur"))

\* Lines 323-328: the result collected for a record whose extraction raised.
DadosDeErro(c) ==
  [CPF |-> c, Status |-> "erro", ParcelasPagas |-> Nulo, Saldo |-> Nulo]

\* Lines 317-330: the try/except around the extraction: the collected
\* result, the status and the message of the stream line.
Classificar(r, c) ==
  IF r.exc = "none"
  THEN [dados |-> r.dados[1], status |-> r.dados[1].Status,
        mensagem |-> <<"extração concluída">>]
  ELSE [dados |-> DadosDeErro(c), status |-> "erro",
        mensagem |-> <<"erro: ", r.exc>>]

\* ------------------------------------------------------------------- input
\* The input file: absent, not readable as a workbook, a sheet with no 'CPF'
\* column, or a sheet whose 'CPF' column holds these cells.
RECURSIVE SeqsAte(_, _)
SeqsAte(S, n) ==
  IF n = 0 THEN {<<>>}
  ELSE LET menores == SeqsAte(S, n - 1) IN
       menores \cup {Append(s, x) : s \in {m \in menores : Len(m) = n - 1}, x \in S}

ArquivosDeEntrada ==
  {[tipo |-> "ausente", celulas |-> <<>>], [tipo |-> "ilegivel", celulas |-> <<>>],
   [tipo |-> "sem_coluna", celulas |-> <<>>]}
    \cup {[tipo |-> "planilha", celulas |-> cs] : cs \in SeqsAte(Celulas, MaxRows)}

\* Lines 188-194: the exception carregar_entrada raises, or "none".
CarregarEntradaExc(arq) ==
  CASE arq.tipo = "ausente" -> "FileNotFoundError"
    [] arq.tipo = "ilegivel" -> "BadZipFile"
    [] arq.tipo = "sem_coluna" -> "ValueError"
    [] OTHER -> "none"

\* Line 196: df.to_dict("records").
Registros(arq) == [i \in 1..Len(arq.celulas) |-> RegistroDe(arq.celulas[i])]

\* --------------------------------------------------------------- artifact
\* Lines 347-348: DataFrame(resultados).to_excel: one row per result, in
\* order, a None becoming an empty cell.
ParaPlanilha(rs) ==
  [k \in 1..Len(rs) |->
     [CPF |-> rs[k].CPF, Status |-> rs[k].Status,
      ParcelasPagas |-> rs[k].ParcelasPagas, Saldo |-> rs[k].Saldo]]

\* -------------------------------------------------------------------- state
VARIABLES
  pc,                 \* the statement the run is at
  streaming_path,     \* cfg["streaming_path"]
  caminho_saida,      \* --output
  arquivoSeletores,   \* what the file cfg["selectors_file"] holds
  arquivoEntrada,     \* what the file --input holds
  streamAnterior,     \* the stream log file as the run found it
  streamExiste,       \* the stream log file exists
  stream,             \* the content of the stream log file
  selectors,          \* the keys of the loaded selector map
  driver,             \* the local driver: "None" or "Edge"
  sessao,             \* the browser session: "ausente", "ativa", "encerrada"
  registros,          \* the rows of the input
  idx,                \* the position of the loop, 0 before the first row
  cpf,                \* the identifier of the row at hand
  dados,              \* <<the result of the row at hand>>
  status,             \* the status of the row at hand
  mensagem_streaming, \* the message of the row at hand
  resultados,         \* the collected results
  saida,              \* the rows of the consolidated artifact written
  exc,                \* the exception in flight, or "none"
  codigoSaida,        \* the exit status of main, -1 while running
  eventos,            \* history: the steps taken, in order
  hist,               \* history: one entry per call of the extraction
  relatorios,         \* history: the progress reports emitted
  acoes               \* history: the browser calls of the last extraction

vars == <<pc, streaming_path, caminho_saida, arquivoSeletores, arquivoEntrada,
          streamAnterior,
          streamExiste, stream, selectors,
          driver, sessao, registros, idx, cpf, dados, status,
          mensagem_streaming, resultados, saida, exc, codigoSaida, eventos,
          hist, relatorios, acoes>>

config == <<streaming_path, caminho_saida, arquivoSeletores, arquivoEntrada,
           streamAnterior>>
arquivoStream == <<streamExiste, stream>>
laco == <<idx, cpf, dados, status, mensagem_streaming>>
historia == <<hist, relatorios, acoes>>

Evento(op, i) == [op |-> op, i |-> i]

\* The stream log left by an earlier run: none, a header, a header and a line.
LinhaAntiga == FormatarLinha(<<"9">>, "ok", <<"extração concluída">>)
StreamsAnteriores ==
  {[existe |-> FALSE, txt |-> <<>>], [existe |-> TRUE, txt |-> Cabecalho],
   [existe |-> TRUE, txt |-> Cabecalho \o LinhaAntiga]}

Init ==
  /\ pc = "carregar_selectors"
  /\ streaming_path \in Caminhos("streaming_saida.txt")
  /\ caminho_saida \in Caminhos("saida.xlsx")
  /\ arquivoSeletores \in ArquivosDeSeletores
  /\ arquivoEntrada \in ArquivosDeEntrada
  /\ streamAnterior \in StreamsAnteriores
  /\ streamExiste = streamAnterior.existe
  /\ stream = streamAnterior.txt
  /\ selectors = {}
  /\ driver = "None"
  /\ sessao = "ausente"
  /\ registros = <<>>
  /\ idx = 0
  /\ cpf = <<>>
  /\ dados = <<>>
  /\ status = ""
  /\ mensagem_streaming = <<>>
  /\ resultados = <<>>
  /\ saida = <<>>
  /\ exc = "none"
  /\ codigoSaida = -1
  /\ eventos = <<>>
  /\ hist = <<>>
  /\ relatorios = <<>>
  /\ acoes = <<>>

\* An exception raised before the try block leaves executar_extracao at once.
LevantarFora(e) == pc' = "main_except" /\ exc' = e

\* An exception raised inside the try block runs the finally clause first.
LevantarNoTry(e) == pc' = "finally" /\ exc' = e

\* Line 293 with carregar_selectors not checking what it read (lines 94-95
\* and 100-101 left out): a file that holds no object gives an empty map.
CarregarSelectorsSemValidar ==
  /\ pc = "carregar_selectors"
  /\ pc' = "inicializar_streaming"
  /\ selectors' = arquivoSeletores.chaves
  /\ eventos' = Append(eventos, Evento("carregar_selectors", 0))
  /\ UNCHANGED <<config, arquivoStream, driver, sessao, registros, laco,
                 resultados, saida, exc, codigoSaida, historia>>

\* Line 293: selectors = carregar_selectors(cfg["selectors_file"])
CarregarSelectors ==
  /\ pc = "carregar_selectors"
  /\ LET e == CarregarSelectorsExc(arquivoSeletores) IN
     IF e # "none"
     THEN LevantarFora(e) /\ UNCHANGED selectors
     ELSE pc' = "inicializar_streaming" /\ selectors' = arquivoSeletores.chaves
                                        /\ UNCHANGED exc
  /\ eventos' = Append(eventos, Evento("carregar_selectors", 0))
  /\ UNCHANGED <<config, arquivoStream, driver, sessao, registros, laco,
                 resultados, saida, codigoSaida, historia>>

\* open(path, "w"): the file exists and is empty.
AbrirParaEscrever(arq) == [existe |-> TRUE, txt |-> <<>>]

\* open(path, "a"): the file exists and keeps what it held.
AbrirParaAnexar(arq) == [existe |-> TRUE, txt |-> arq.txt]

\* fp.write(t): t goes after what the open file holds.
Escrever(arq, t) == [existe |-> arq.existe, txt |-> arq.txt \o t]

\* fp.write(t) that fails after n bytes reached the file (the with block
\* flushes when it closes the file, lines 210-211 and 220-221).
EscreverAte(arq, t, n) == Escrever(arq, PrimeirosBytes(t, n))

\* Lines 210-211 with the file opened in append mode.
InicializarStreamingArquivoAnexando(arq) ==
  Escrever(AbrirParaAnexar(arq), Cabecalho)

\* Lines 210-211: the file after inicializar_streaming, given the file before.
InicializarStreamingArquivo(arq) == Escrever(AbrirParaEscrever(arq), Cabecalho)

\* Lines 205-212 (called at line 296): inicializar_streaming.
InicializarStreaming ==
  /\ pc = "inicializar_streaming"
  /\ LET e == MakedirsExc(Dirname(streaming_path))
         arq == [existe |-> streamExiste, txt |-> stream]
     IN
     IF e # "none"
     THEN LevantarFora(e) /\ UNCHANGED arquivoStream
     ELSE \/ /\ pc' = "iniciar_driver"
             /\ LET r == InicializarStreamingArquivo(arq) IN
                streamExiste' = r.existe /\ stream' = r.txt
             /\ UNCHANGED exc
          \/ /\ LevantarFora("OSError")
             /\ UNCHANGED arquivoStream
          \/ \E n \in 0..(TotalDeBytes(Cabecalho) - 1) :
               /\ n <= MaxCorte
               /\ LevantarFora("OSError")
               /\ LET r == EscreverAte(AbrirParaEscrever(arq), Cabecalho, n) IN
                  streamExiste' = r.existe /\ stream' = r.txt
  /\ eventos' = Append(eventos, Evento("inicializar_streaming", 0))
  /\ UNCHANGED <<config, selectors, driver, sessao, registros, laco,
                 resultados, saida, codigoSaida, historia>>

\* Line 302: driver = iniciar_driver(cfg["driver_path"]); the browser starts
\* or the constructor raises and driver stays None.
IniciarDriver ==
  /\ pc = "iniciar_driver"
  /\ \E iniciou \in BOOLEAN :
       IF iniciou
       THEN pc' = "login" /\ driver' = "Edge" /\ sessao' = "ativa"
                          /\ UNCHANGED exc
       ELSE LevantarNoTry("WebDriverException") /\ UNCHANGED <<driver, sessao>>
  /\ eventos' = Append(eventos, Evento("iniciar_driver", 0))
  /\ UNCHANGED <<config, arquivoStream, selectors, registros, laco,
                 resultados, saida, codigoSaida, historia>>

\* Line 303: login(driver, selectors, ...)
Login ==
  /\ pc = "login"
  /\ \E vis \in SUBSET ChavesLogin :
       LET e == LoginExc(selectors, vis) IN
       IF e # "none" THEN LevantarNoTry(e)
       ELSE pc' = "navegar" /\ UNCHANGED exc
  /\ eventos' = Append(eventos, Evento("login", 0))
  /\ UNCHANGED <<config, arquivoStream, selectors, driver, sessao, registros,
                 laco, resultados, saida, codigoSaida, historia>>

\* Line 304: navegar_para_modulo_consulta(driver, selectors)
Navegar ==
  /\ pc = "navegar"
  /\ \E vis \in SUBSET ChavesNavegacao :
       LET e == NavegarExc(selectors, vis) IN
       IF e # "none" THEN LevantarNoTry(e)
       ELSE pc' = "carregar_entrada" /\ UNCHANGED exc
  /\ eventos' = Append(eventos, Evento("navegar", 0))
  /\ UNCHANGED <<config, arquivoStream, selectors, driver, sessao, registros,
                 laco, resultados, saida, codigoSaida, historia>>

\* Line 306 with carregar_entrada giving an empty batch for a file it cannot
\* use (lines 188-189 and 193-194 returning [] instead of raising).
CarregarEntradaTolerante ==
  /\ pc = "carregar_entrada"
  /\ pc' = "laco"
  /\ registros' = Registros(arquivoEntrada)
  /\ eventos' = Append(eventos, Evento("carregar_entrada", 0))
  /\ UNCHANGED <<config, arquivoStream, selectors, driver, sessao, laco,
                 resultados, saida, exc, codigoSaida, historia>>

\* Lines 306-309: registros = carregar_entrada(caminho_entrada)
CarregarEntrada ==
  /\ pc = "carregar_entrada"
  /\ LET e == CarregarEntradaExc(arquivoEntrada) IN
     IF e # "none" THEN LevantarNoTry(e) /\ UNCHANGED registros
     ELSE pc' = "laco" /\ registros' = Registros(arquivoEntrada)
                      /\ UNCHANGED exc
  /\ eventos' = Append(eventos, Evento("carregar_entrada", 0))
  /\ UNCHANGED <<config, arquivoStream, selectors, driver, sessao, laco,
                 resultados, saida, codigoSaida, historia>>

\* Lines 311-315: the loop takes the next row; a row whose identifier is
\* empty is skipped with a warning.
ProximoRegistro ==
  /\ pc = "laco"
  /\ idx < Len(registros)
  /\ idx' = idx + 1
  /\ cpf' = CpfDaLinha(registros[idx + 1])
  /\ IF cpf' = <<>>
     THEN /\ pc' = "laco"
          /\ eventos' = Append(eventos, Evento("aviso_sem_cpf", idx + 1))
     ELSE /\ pc' = "extrair"
          /\ UNCHANGED eventos
  /\ UNCHANGED <<config, arquivoStream, selectors, driver, sessao, registros,
                 dados, status, mensagem_streaming, resultados, saida, exc,
                 codigoSaida, historia>>

\* Line 311 with the consolidation reached from inside the loop: the loop is
\* left once a row has been taken, whether or not rows remain.
FimDoLacoCedo ==
  /\ pc = "laco"
  /\ idx >= 1 \/ idx = Len(registros)
  /\ pc' = "consolidar"
  /\ UNCHANGED <<config, arquivoStream, selectors, driver, sessao, registros,
                 laco, resultados, saida, exc, codigoSaida, eventos, historia>>

\* Line 311: the rows are exhausted.
FimDoLaco ==
  /\ pc = "laco"
  /\ idx = Len(registros)
  /\ pc' = "consolidar"
  /\ UNCHANGED <<config, arquivoStream, selectors, driver, sessao, registros,
                 laco, resultados, saida, exc, codigoSaida, eventos, historia>>

\* Lines 317-330 without the try/except: an exception of the extraction
\* leaves the loop.
ExtrairSemExcept ==
  /\ pc = "extrair"
  /\ \E vis \in SUBSET ChavesRegistro :
       LET r == ExtrairDadosParaCpf(selectors, vis, cpf) IN
       /\ hist' = Append(hist, [i |-> idx, cpf |-> cpf, exc |-> r.exc])
       /\ acoes' = r.acoes
       /\ IF r.exc = "none"
          THEN /\ dados' = r.dados
               /\ status' = r.dados[1].Status
               /\ mensagem_streaming' = <<"extração concluída">>
               /\ pc' = "coletar"
               /\ UNCHANGED exc
          ELSE /\ LevantarNoTry(r.exc)
               /\ UNCHANGED <<dados, status, mensagem_streaming>>
  /\ eventos' = Append(eventos, Evento("extrair", idx))
  /\ UNCHANGED <<config, arquivoStream, selectors, driver, sessao, registros,
                 idx, cpf, resultados, saida, codigoSaida, relatorios>>

\* Lines 317-330 with the waits of the extraction given no timeout: when an
\* awaited element never shows, the call never returns.
ExtrairSemTimeout ==
  /\ pc = "extrair"
  /\ \E vis \in SUBSET ChavesRegistro :
       LET r == ExtrairDadosParaCpf(selectors, vis, cpf)
           cl == Classificar(r, cpf)
       IN IF r.exc = "TimeoutException"
          THEN /\ pc' = "esperando"
               /\ acoes' = r.acoes
               /\ UNCHANGED <<dados, status, mensagem_streaming, hist>>
          ELSE /\ dados' = <<cl.dados>>
               /\ status' = cl.status
               /\ mensagem_streaming' = cl.mensagem
               /\ hist' = Append(hist, [i |-> idx, cpf |-> cpf, exc |-> r.exc])
               /\ acoes' = r.acoes
               /\ pc' = "coletar"
  /\ eventos' = Append(eventos, Evento("extrair", idx))
  /\ UNCHANGED <<config, arquivoStream, selectors, driver, sessao, registros,
                 idx, cpf, resultados, saida, exc, codigoSaida, relatorios>>

\* Lines 317-330: the extraction for the row at hand, inside its try/except.
Extrair ==
  /\ pc = "extrair"
  /\ \E vis \in SUBSET ChavesRegistro :
       LET r == ExtrairDadosParaCpf(selectors, vis, cpf)
           cl == Classificar(r, cpf)
       IN /\ dados' = <<cl.dados>>
          /\ status' = cl.status
          /\ mensagem_streaming' = cl.mensagem
          /\ hist' = Append(hist, [i |-> idx, cpf |-> cpf, exc |-> r.exc])
          /\ acoes' = r.acoes
  /\ pc' = "coletar"
  /\ eventos' = Append(eventos, Evento("extrair", idx))
  /\ UNCHANGED <<config, arquivoStream, selectors, driver, sessao, registros,
                 idx, cpf, resultados, saida, exc, codigoSaida, relatorios>>

\* Line 332: resultados.append(dados)
Coletar ==
  /\ pc = "coletar"
  /\ resultados' = Append(resultados, dados[1])
  /\ pc' = "append_streaming"
  /\ UNCHANGED <<config, arquivoStream, selectors, driver, sessao, registros,
                 laco, saida, exc, codigoSaida, eventos, historia>>

\* Lines 215-221 (called at line 333): append_streaming.  The call may fail
\* after n bytes of the line reached the file (none when it is the open that
\* fails); that exception is not caught in the loop.
AppendStreaming ==
  /\ pc = "append_streaming"
  /\ LET arq == [existe |-> streamExiste, txt |-> stream]
         linha == FormatarLinha(cpf, status, mensagem_streaming)
     IN \/ /\ LET r == Escrever(AbrirParaAnexar(arq), linha) IN
                streamExiste' = r.existe /\ stream' = r.txt
            /\ pc' = "progresso"
            /\ UNCHANGED exc
        \/ \E n \in 0..(TotalDeBytes(linha) - 1) :
             /\ n <= MaxCorte
             /\ LevantarNoTry("OSError")
             /\ LET r == EscreverAte(AbrirParaAnexar(arq), linha, n) IN
                streamExiste' = r.existe /\ stream' = r.txt
  /\ eventos' = Append(eventos, Evento("append_streaming", idx))
  /\ UNCHANGED <<config, selectors, driver, sessao, registros, laco,
                 resultados, saida, codigoSaida, historia>>

\* ---- binary floating point (lines 336-341)
\* A double is [m, e]: m the bits of the significand, lowest first, and e the
\* exponent of the lowest bit; its value is the number m spells times 2^e.
\* The steps are functions, so that each takes values already computed, as
\* the interpreter evaluates an operand once before it applies the operation.
Bit == {0, 1}
Duplos == [m : Seq(Bit), e : Int]
\* The first bits of a quotient and the remainder left.
Quocientes == [bits : Seq(Bit), resto : Nat]
\* A fraction a / b scaled by 2^k.
Normalizados == [a : Nat, b : Nat, k : Int]

\* The bits of the natural number n, lowest first.
BitsDe[n \in Nat] == IF n = 0 THEN <<>> ELSE <<n % 2>> \o BitsDe[n \div 2]

\* The natural number the bits spell.
ValorDe[bits \in Seq(Bit)] ==
  IF bits = <<>> THEN 0 ELSE Head(bits) + 2 * ValorDe[Tail(bits)]

\* The bits plus one.
MaisUm[bits \in Seq(Bit)] ==
  IF bits = <<>> THEN <<1>>
  ELSE IF Head(bits) = 0 THEN <<1>> \o Tail(bits)
       ELSE <<0>> \o MaisUm[Tail(bits)]

\* The bits times the natural number k, plus the carry c.
VezesPequeno[bits \in Seq(Bit), k \in Nat, c \in Nat] ==
  IF bits = <<>> THEN BitsDe[c]
  ELSE <<(Head(bits) * k + c) % 2>>
         \o VezesPequeno[Tail(bits), k, (Head(bits) * k + c) \div 2]

\* Significand bits of a double.
Precisao == 53

\* Round to nearest, ties to even: the exact value bits * 2^e as a double.
Arredondar[bits \in Seq(Bit), e \in Int] ==
  IF Len(bits) <= Precisao THEN [m |-> bits, e |-> e]
  ELSE LET d == Len(bits) - Precisao
           alto == SubSeq(bits, d + 1, Len(bits))
           resto == \E j \in 1..(d - 1) : bits[j] = 1
           sobe == bits[d] = 1 /\ (resto \/ alto[1] = 1)
       IN [m |-> IF sobe THEN MaisUm[alto] ELSE alto, e |-> e + d]

\* n further bits of the quotient r / b (r < b), put before the bits found
\* so far, and the remainder left.
DivBits[r \in Nat, b \in Nat, n \in Nat, achados \in Seq(Bit)] ==
  IF n = 0 THEN [bits |-> achados, resto |-> r]
  ELSE IF 2 * r >= b THEN DivBits[2 * r - b, b, n - 1, <<1>> \o achados]
       ELSE DivBits[2 * r, b, n - 1, <<0>> \o achados]

\* a, b and k with b <= a < 2b and i / t = (a / b) * 2^k.
Normalizar[a \in Nat, b \in Nat, k \in Int] ==
  IF a < b THEN Normalizar[2 * a, b, k - 1]
  ELSE IF a >= 2 * b THEN Normalizar[a, 2 * b, k + 1]
       ELSE [a |-> a, b |-> b, k |-> k]

\* The quotient a / b, b <= a < 2b, from its first Precisao bits q and the
\* remainder: round to nearest, ties to even.
ArredondarQuociente[q \in Quocientes, b \in Nat, e \in Int] ==
  LET sobe == 2 * q.resto > b \/ (2 * q.resto = b /\ q.bits[1] = 1)
  IN [m |-> IF sobe THEN MaisUm[q.bits] ELSE q.bits, e |-> e]

\* a / b times 2^k for the normalised n = [a, b, k].
DividirNormalizado[n \in Normalizados] ==
  ArredondarQuociente[DivBits[n.a - n.b, n.b, Precisao - 1, <<1>>], n.b,
                      n.k - (Precisao - 1)]

\* idx / total: the quotient of two positive integers, correctly rounded.
Dividir[i \in Nat, t \in Nat] == DividirNormalizado[Normalizar[i, t, 0]]

\* x * k for a double x and a small natural k, correctly rounded.
Multiplicar[x \in Duplos, k \in Nat] ==
  Arredondar[VezesPequeno[x.m, k, 0], x.e]

\* The exact value p * 2^e rounded to an integer, ties to even.
InteiroMaisProximo[p \in Seq(Bit), e \in Int] ==
  IF e >= 0 THEN ValorDe[[j \in 1..e |-> 0] \o p]
  ELSE LET f == 0 - e
           inteiro == IF Len(p) > f THEN ValorDe[SubSeq(p, f + 1, Len(p))]
                      ELSE 0
           meio == f <= Len(p) /\ p[f] = 1
           resto == \E j \in 1..(f - 1) : j <= Len(p) /\ p[j] = 1
       IN IF meio /\ (resto \/ inteiro % 2 = 1) THEN inteiro + 1
          ELSE inteiro

\* "%.2f" % x as hundredths: the exact value of x rounded to two decimals,
\* ties to even.
DuasCasas[x \in Duplos] == InteiroMaisProximo[VezesPequeno[x.m, 100, 0], x.e]

\* Line 340: (idx / total) * 100 as the report prints it with %.2f:
\* hundredths of a percent.
Percentual(i, t) == DuasCasas[Multiplicar[Dividir[i, t], 100]]

\* Lines 335-342 with the total counting only the rows that are processed.
ProgressoSoValidos ==
  /\ pc = "progresso"
  /\ LET t == Cardinality({i \in 1..Len(registros) :
                             CpfDaLinha(registros[i]) # <<>>}) IN
     relatorios' = Append(relatorios,
                     [idx |-> idx, total |-> t, pct |-> Percentual(idx, t)])
  /\ pc' = "laco"
  /\ UNCHANGED <<config, arquivoStream, selectors, driver, sessao, registros,
                 laco, resultados, saida, exc, codigoSaida, eventos, hist, acoes>>

\* Lines 335-342: the progress report; total is len(registros) (line 308).
Progresso ==
  /\ pc = "progresso"
  /\ relatorios' = Append(relatorios,
                     [idx |-> idx, total |-> Len(registros),
                      pct |-> Percentual(idx, Len(registros))])
  /\ pc' = "laco"
  /\ UNCHANGED <<config, arquivoStream, selectors, driver, sessao, registros,
                 laco, resultados, saida, exc, codigoSaida, eventos, hist, acoes>>

\* Lines 345-351: the consolidated artifact, written when there are results.
Consolidar ==
  /\ pc = "consolidar"
  /\ IF resultados # <<>>
     THEN LET e == MakedirsExc(Dirname(caminho_saida)) IN
          IF e # "none"
          THEN /\ LevantarNoTry(e)
               /\ eventos' = Append(eventos, Evento("makedirs", 0))
               /\ UNCHANGED saida
          ELSE \E gravou \in BOOLEAN :
                 /\ eventos' = eventos \o <<Evento("makedirs", 0), Evento("to_excel", 0)>>
                 /\ IF gravou
                    THEN /\ saida' = ParaPlanilha(resultados)
                         /\ pc' = "finally"
                         /\ UNCHANGED exc
                    ELSE LevantarNoTry("OSError") /\ UNCHANGED saida
     ELSE /\ eventos' = Append(eventos, Evento("aviso_sem_resultado", 0))
          /\ pc' = "finally"
          /\ UNCHANGED <<saida, exc>>
  /\ UNCHANGED <<config, arquivoStream, selectors, driver, sessao, registros,
                 laco, resultados, codigoSaida, historia>>

\* Lines 353-356 with the quit at the end of the try block instead of in a
\* finally clause: the driver is released only when nothing was raised.
FinallySoNoSucesso ==
  /\ pc = "finally"
  /\ IF driver # "None" /\ exc = "none"
     THEN /\ sessao' = "encerrada"
          /\ eventos' = Append(eventos, Evento("quit", 0))
     ELSE UNCHANGED <<sessao, eventos>>
  /\ pc' = IF exc = "none" THEN "main_retorno" ELSE "main_except"
  /\ UNCHANGED <<config, arquivoStream, selectors, driver, registros, laco,
                 resultados, saida, exc, codigoSaida, historia>>

\* Lines 353-356: the finally clause; then the function returns or the
\* exception in flight goes on to main.
Finally ==
  /\ pc = "finally"
  /\ IF driver # "None"
     THEN /\ sessao' = "encerrada"
          /\ eventos' = Append(eventos, Evento("quit", 0))
     ELSE UNCHANGED <<sessao, eventos>>
  /\ pc' = IF exc = "none" THEN "main_retorno" ELSE "main_except"
  /\ UNCHANGED <<config, arquivoStream, selectors, driver, registros, laco,
                 resultados, saida, exc, codigoSaida, historia>>

\* Line 418: executar_extracao returned; main ends and the exit status is 0.
MainRetorno ==
  /\ pc = "main_retorno"
  /\ codigoSaida' = 0
  /\ pc' = "terminado"
  /\ UNCHANGED <<config, arquivoStream, selectors, driver, sessao, registros,
                 laco, resultados, saida, exc, eventos, historia>>

\* Lines 419-421 without the sys.exit(1): the exception is logged and main
\* ends normally.
MainExceptSemExit ==
  /\ pc = "main_except"
  /\ codigoSaida' = 0
  /\ pc' = "terminado"
  /\ UNCHANGED <<config, arquivoStream, selectors, driver, sessao, registros,
                 laco, resultados, saida, exc, eventos, historia>>

\* Lines 419-421: the exception reached main; sys.exit(1).
MainExcept ==
  /\ pc = "main_except"
  /\ codigoSaida' = 1
  /\ pc' = "terminado"
  /\ UNCHANGED <<config, arquivoStream, selectors, driver, sessao, registros,
                 laco, resultados, saida, exc, eventos, historia>>

Next ==
  \/ CarregarSelectors
  \/ InicializarStreaming
  \/ IniciarDriver
  \/ Login
  \/ Navegar
  \/ CarregarEntrada
  \/ ProximoRegistro
  \/ FimDoLaco
  \/ Extrair
  \/ Coletar
  \/ AppendStreaming
  \/ Progresso
  \/ Consolidar
  \/ Finally
  \/ MainRetorno
  \/ MainExcept

Spec == Init /\ [][Next]_vars

\* The run under the assumption that every call returns: the interpreter goes
\* on to the next statement, and each browser action and each bounded wait
\* comes back with a result or an exception.
SpecJusta == Spec /\ WF_vars(Next)

\* ------------------------------------------------------ reading the history
\* The steps that ran, the release of the driver left out: after a raise
\* nothing but the release follows, so the last one is the step that raised.
NaoEhQuit(e) == e.op # "quit"
Passos == SelectSeq(eventos, NaoEhQuit)
UltimoPasso == IF Passos = <<>> THEN "" ELSE Passos[Len(Passos)].op

\* The step op raised and its exception is in flight or reached main.
Falhou(op) == exc # "none" /\ UltimoPasso = op

\* How many times the step op ran.
Contar(op) == Cardinality({k \in 1..Len(eventos) : eventos[k].op = op})

\* The input was loaded: carregar_entrada ran and did not raise.
EntradaCarregada == Contar("carregar_entrada") = 1 /\ ~Falhou("carregar_entrada")

\* executar_extracao is over: its try block was left.
ForaDoTry == pc \in {"finally", "main_retorno", "main_except", "terminado"}
Retornou == pc \in {"main_retorno", "main_except", "terminado"}

\* The rows for which the extraction was called.
Processadas == {hist[k].i : k \in 1..Len(hist)}

\* The rows the code gives a non-empty identifier.
ComCpf == {i \in 1..Len(registros) : CpfDaLinha(registros[i]) # <<>>}

\* ------------------------------------------------------------------ claims

\* C1, as stated: a failure of any kind while a record is handled, in the
\* extraction or anywhere else in the loop body, never aborts the batch:
\* when the run leaves the loop every row with a non-empty identifier has
\* been processed.
C1_QualquerFalhaIsolada ==
  (ForaDoTry /\ EntradaCarregada) => ComCpf \subseteq Processadas

\* C1, amended: an exception raised by the per-record extraction never
\* leaves the loop, and unless append_streaming raises every row with a
\* non-empty identifier is processed by the time the loop is left.
C1_IsolamentoDaExtracao ==
  /\ ~Falhou("extrair")
  /\ (ForaDoTry /\ EntradaCarregada /\ ~Falhou("append_streaming"))
       => ComCpf \subseteq Processadas

\* C1 witness: a record whose extraction raised, and a later record processed.
C1_Witness ==
  /\ pc = "terminado"
  /\ \E j, k \in 1..Len(hist) :
       j < k /\ hist[j].exc # "none" /\ hist[j].i < hist[k].i

\* C2: the driver is released exactly once when iniciar_driver returned one
\* and never otherwise; one session at most; nothing uses it once released.
OpsDeSessao == {"iniciar_driver", "login", "navegar", "extrair", "quit"}
C2_EncerramentoDaSessao ==
  /\ Contar("iniciar_driver") <= 1
  /\ Contar("quit") <= 1
  /\ (driver = "Edge") <=> (sessao # "ausente")
  /\ driver = "None" => Contar("quit") = 0
  /\ Retornou => Contar("quit") = (IF driver = "Edge" THEN 1 ELSE 0)
  /\ sessao = "encerrada" <=> Contar("quit") = 1
  /\ sessao = "encerrada" => Retornou
  /\ \A j, k \in 1..Len(eventos) :
       (j < k /\ eventos[j].op = "quit") => eventos[k].op \notin OpsDeSessao

\* C2 witness: a run that started the driver, raised later while writing the
\* artifact, and ended with the driver released once.
C2_Witness ==
  /\ pc = "terminado"
  /\ driver = "Edge"
  /\ Falhou("to_excel")
  /\ Contar("quit") = 1

\* C3: when iniciar_driver, login or navigation raises, no record is
\* processed, the stream log keeps only its header, no artifact is written,
\* a started driver is released once and main exits with status 1.
FalhaDeEstabelecimento ==
  Falhou("iniciar_driver") \/ Falhou("login") \/ Falhou("navegar")
C3_FalhaFatal ==
  FalhaDeEstabelecimento =>
    /\ pc \in {"finally", "main_except", "terminado"}
    /\ hist = <<>> /\ resultados = <<>> /\ idx = 0
    /\ streamExiste /\ stream = Cabecalho
    /\ saida = <<>> /\ Contar("to_excel") = 0
    /\ pc # "finally" => Contar("quit") = (IF driver = "Edge" THEN 1 ELSE 0)
    /\ pc = "terminado" => codigoSaida = 1

\* C3 witness: login timed out and the run ended with status 1.
C3_Witness ==
  /\ pc = "terminado"
  /\ Falhou("login")
  /\ exc = "TimeoutException"
  /\ codigoSaida = 1

\* The stream log was initialized by this run.
StreamInicializado ==
  Contar("inicializar_streaming") = 1 /\ ~Falhou("inicializar_streaming")

\* The selector map was loaded by this run.
SeletoresCarregados ==
  Contar("carregar_selectors") = 1 /\ ~Falhou("carregar_selectors")

\* The consolidated artifact was written by this run.
ArtefatoEscrito == Contar("to_excel") = 1 /\ ~Falhou("to_excel")

\* A row with no identifier, as the specification has it: the cell holds no
\* value, or its text is empty once trimmed.
SemIdentificador(row) ==
  \/ "CPF" \notin DOMAIN row
  \/ row.CPF.t = "nan"
  \/ Strip(PyStr(row.CPF)) = <<>>

\* The identifiers of the rows that have one, in input order.
RECURSIVE IdentificadoresDe(_)
IdentificadoresDe(rs) ==
  IF rs = <<>> THEN <<>>
  ELSE IF SemIdentificador(Head(rs)) THEN IdentificadoresDe(Tail(rs))
  ELSE <<Strip(PyStr(Head(rs).CPF))>> \o IdentificadoresDe(Tail(rs))

\* The identifier and the status a line of the stream log carries.
IdDaLinha(l) == Campos(l)[1]
StatusDaLinha(l) == Campos(l)[2]

\* C4, as stated: when establishment, navigation and input loading succeed,
\* the stream log ends with one data line per row that has an identifier, in
\* input order. Checked on the runs in which every append succeeded.
C4_LogCompleto ==
  (pc = "terminado" /\ EntradaCarregada /\ ~Falhou("append_streaming")) =>
    LET ls == LinhasDeDados(stream) IN
    [k \in 1..Len(ls) |-> IdDaLinha(ls[k])] = IdentificadoresDe(registros)

\* C5, as stated: the artifact written at batch end has as many rows as the
\* stream log has data lines, and row k carries the identifier and status of
\* data line k; a run that processed a record and ended with status 0 wrote
\* the artifact.
C5_ArtefatoConfereComLog ==
  /\ ArtefatoEscrito =>
       LET ls == LinhasDeDados(stream) IN
       /\ Len(saida) >= 1
       /\ Len(saida) = Len(ls)
       /\ \A k \in 1..Len(ls) :
            /\ IdDaLinha(ls[k]) = saida[k].CPF
            /\ StatusDaLinha(ls[k]) = <<saida[k].Status>>
  /\ (pc = "terminado" /\ codigoSaida = 0 /\ hist # <<>>) => ArtefatoEscrito

\* C6, as stated: when a required logical name is absent from the selector
\* map, the batch fails as a whole before any record is processed and the
\* stream log keeps only its header.
ChavesObrigatorias == TodasChaves \ {"botao_consultar"}
C6_ChavesObrigatorias ==
  (SeletoresCarregados /\ ~(ChavesObrigatorias \subseteq selectors)) =>
    /\ hist = <<>>
    /\ StreamInicializado => stream = Cabecalho
    /\ Retornou => exc # "none"

\* C7, as stated: a row with no identifier is skipped (no extraction, no
\* stream line, no result) and every other row is processed.
C7_RegraDeSalto ==
  /\ \A i \in Processadas : ~SemIdentificador(registros[i])
  /\ \A i \in 1..idx :
       (~SemIdentificador(registros[i]) /\ (i < idx \/ pc # "extrair"))
         => i \in Processadas
  /\ Len(resultados) <= Cardinality(Processadas)
  /\ StreamInicializado => Len(LinhasDeDados(stream)) <= Cardinality(Processadas)

\* C8, as stated: a collected result has status "erro", with ParcelasPagas
\* and Saldo null, exactly when the extraction of its record raised, and "ok"
\* otherwise; the stream line of a record carries the identifier and the
\* status of its result. The stream lines are read on the runs in which no
\* append was refused by the file system.
C8_Classificacao ==
  /\ Len(resultados) <= Len(hist)
  /\ \A k \in 1..Len(resultados) :
       /\ resultados[k].CPF = hist[k].cpf
       /\ resultados[k].Status \in {"ok", "erro"}
       /\ (hist[k].exc # "none") <=>
            /\ resultados[k].Status = "erro"
            /\ resultados[k].ParcelasPagas = Nulo
            /\ resultados[k].Saldo = Nulo
       /\ (hist[k].exc = "none") <=> resultados[k].Status = "ok"
  /\ (StreamInicializado /\ ~Falhou("append_streaming")) =>
       LET ls == LinhasDeDados(stream) IN
       /\ Len(ls) <= Len(resultados)
       /\ \A k \in 1..Len(ls) :
            /\ IdDaLinha(ls[k]) = resultados[k].CPF
            /\ StatusDaLinha(ls[k]) = <<resultados[k].Status>>
            /\ (hist[k].exc # "none") <=> StatusDaLinha(ls[k]) = <<"erro">>

\* How many of the first p steps were the step op.
ContarAte(op, p) == Cardinality({k \in 1..p : eventos[k].op = op})

\* C9, as stated: whenever the loop is about to take the next row, or to
\* start the extraction of a row, the stream log holds the header and one
\* data line per record handled so far; the line of a record is written
\* before any step of the next record.
C9_Durabilidade ==
  /\ (StreamInicializado /\ pc \in {"laco", "extrair", "consolidar"}) =>
       LET ls == Linhas(stream) IN
       /\ ls # <<>>
       /\ ls[1] \o <<NL>> = Cabecalho
       /\ Len(ls) - 1 = Len(resultados)
       /\ Len(ls) - 1 = Len(hist)
       /\ \A k \in 1..Len(hist) : IdDaLinha(ls[k + 1]) = hist[k].cpf
  /\ \A p \in 1..Len(eventos) :
       eventos[p].op = "extrair" =>
         ContarAte("append_streaming", p) = ContarAte("extrair", p - 1)

\* C10, as stated: when establishment, navigation and input loading succeed,
\* main exits with status 0 and the artifact holds one row per processed
\* record, however many records ended in error. Checked on the runs that
\* processed a record and in which no write was refused by the file system.
C10_SaidaComErros ==
  (/\ pc = "terminado"
   /\ EntradaCarregada
   /\ hist # <<>>
   /\ ~Falhou("append_streaming")
   /\ ~Falhou("to_excel")) =>
    /\ codigoSaida = 0
    /\ ArtefatoEscrito
    /\ Len(saida) = Len(hist)

\* C11, as stated: when no row of the input has an identifier (no rows, or
\* only rows without one) and the session was established, no artifact is
\* written, the warning is emitted, the stream log keeps only its header, the
\* driver is released and main exits with status 0.
C11_LoteVazio ==
  (pc = "terminado" /\ EntradaCarregada /\ IdentificadoresDe(registros) = <<>>) =>
    /\ Contar("to_excel") = 0
    /\ saida = <<>>
    /\ Contar("aviso_sem_resultado") = 1
    /\ stream = Cabecalho
    /\ Contar("quit") = 1
    /\ codigoSaida = 0

\* The loop ran to its end.
LacoCompleto == Contar("makedirs") + Contar("aviso_sem_resultado") = 1

\* C12, as stated: the total of every progress report is the number of rows
\* with a non-empty identifier, and the report after the last processed
\* record shows 100%.
C12_TotalSoValidos ==
  /\ \A k \in 1..Len(relatorios) : relatorios[k].total = Cardinality(ComCpf)
  /\ (LacoCompleto /\ relatorios # <<>>) =>
       relatorios[Len(relatorios)].pct = 10000

\* C12, amended: the total of every progress report is the number of input
\* rows, skipped rows included, and the numerator is the position of the row;
\* a report shows 100.00% when its record is the last row of the input, and
\* in a batch of fewer than 20000 rows, where rounding to two decimals
\* cannot give 100.00 for an earlier row, only then.
C12_TotalDeLinhas ==
  /\ Len(relatorios) <= Len(hist)
  /\ \A k \in 1..Len(relatorios) :
       /\ relatorios[k].total = Len(registros)
       /\ relatorios[k].idx = hist[k].i
       /\ relatorios[k].idx = Len(registros) => relatorios[k].pct = 10000
       /\ (Len(registros) < 20000 /\ relatorios[k].pct = 10000) =>
            relatorios[k].idx = Len(registros)

\* C12 witness: a finished batch of two rows, the second skipped: the only
\* report is 1 of 2, 50%.
C12_Witness ==
  /\ pc = "terminado"
  /\ Len(registros) = 2
  /\ ComCpf = {1}
  /\ Len(relatorios) = 1
  /\ relatorios[1].idx = 1 /\ relatorios[1].total = 2 /\ relatorios[1].pct = 5000

\* C13, as stated: after inicializar_streaming on any path, whatever the file
\* held before, the file holds exactly the header line. Read in the states in
\* which the call was the last step taken and the file system refused neither
\* the open nor the write.
C13_QualquerCaminho ==
  (UltimoPasso = "inicializar_streaming" /\ exc # "OSError") =>
    (streamExiste /\ stream = Cabecalho)

\* The part of C13 the code keeps, for a path with a directory part: whatever
\* the file holds, the open in mode "w" and the write leave exactly the header
\* line and no data line, and a second call changes nothing.
C13_InicializacaoTrunca ==
  /\ LET r == InicializarStreamingArquivo([existe |-> streamExiste, txt |-> stream])
     IN /\ r.existe
        /\ r.txt = Cabecalho
        /\ Len(Linhas(r.txt)) = 1
        /\ LinhasDeDados(r.txt) = <<>>
        /\ InicializarStreamingArquivo(r) = r
  /\ pc = "iniciar_driver" => (streamExiste /\ stream = Cabecalho)

\* A state of that part: the log held a header and a data line of an earlier
\* run, and after the call it holds the header alone.
C13_Witness ==
  /\ pc = "iniciar_driver"
  /\ Len(LinhasDeDados(streamAnterior.txt)) = 1
  /\ stream = Cabecalho

\* The rows the code gives a non-empty identifier, in input order.
ComCpfEmOrdem ==
  SelectSeq([i \in 1..Len(registros) |-> i], LAMBDA i : i \in ComCpf)

\* C14: the steps of a run occur in the order load selectors, initialize the
\* stream log, start the driver, login, navigate, load the input, the
\* records in input order, write the artifact, release the driver; a record
\* is processed only after start, login and navigation succeeded; the
\* artifact is written at most once, after the last record; the release of
\* the driver is the last step.
Ordem(op) ==
  CASE op = "carregar_selectors" -> 1
    [] op = "inicializar_streaming" -> 2
    [] op = "iniciar_driver" -> 3
    [] op = "login" -> 4
    [] op = "navegar" -> 5
    [] op = "carregar_entrada" -> 6
    [] op \in {"aviso_sem_cpf", "extrair", "append_streaming"} -> 7
    [] op \in {"makedirs", "aviso_sem_resultado"} -> 8
    [] op = "to_excel" -> 9
    [] op = "quit" -> 10
Unicos == {"carregar_selectors", "inicializar_streaming", "iniciar_driver",
           "login", "navegar", "carregar_entrada", "makedirs", "to_excel",
           "aviso_sem_resultado", "quit"}
C14_OrdemDosPassos ==
  /\ \A j, k \in 1..Len(eventos) :
       j < k =>
         /\ Ordem(eventos[j].op) <= Ordem(eventos[k].op)
         /\ eventos[j].op \in Unicos => eventos[j].op # eventos[k].op
         /\ (Ordem(eventos[j].op) = 7 /\ Ordem(eventos[k].op) = 7)
              => eventos[j].i <= eventos[k].i
         /\ (eventos[j].op = "extrair" /\ eventos[k].op = "extrair")
              => eventos[j].i < eventos[k].i
  /\ \A k \in 1..Len(eventos) :
       LET o == Ordem(eventos[k].op)
           antes == IF k = 1 THEN 0 ELSE Ordem(eventos[k - 1].op)
       IN CASE o \in 1..6 -> antes = o - 1
            [] o \in {7, 8} -> antes \in {6, 7}
            [] o = 9 -> antes = 8
            [] o = 10 -> Contar("iniciar_driver") = 1
  /\ hist # <<>> =>
       /\ Contar("iniciar_driver") = 1 /\ Contar("login") = 1
       /\ Contar("navegar") = 1 /\ Contar("carregar_entrada") = 1
       /\ ~FalhaDeEstabelecimento /\ EntradaCarregada
  /\ Contar("makedirs") = 1 =>
       /\ idx = Len(registros)
       /\ Contar("append_streaming") = Len(hist)
       /\ ~Falhou("append_streaming")
       /\ Len(resultados) = Len(hist)
       /\ \A i \in ComCpf : i \in Processadas
  /\ Len(hist) <= Len(ComCpfEmOrdem)
  /\ \A k \in 1..Len(hist) : hist[k].i = ComCpfEmOrdem[k]
  /\ Contar("quit") = 1 => eventos[Len(eventos)].op = "quit"

\* C14 witness: a complete run, two records, artifact written, driver released.
C14_Witness ==
  /\ pc = "terminado"
  /\ Len(hist) = 2
  /\ ArtefatoEscrito
  /\ Contar("quit") = 1

\* C15: if the selector file is missing or does not hold a JSON object,
\* carregar_selectors raises, and nothing else of the run happens: no other
\* step is attempted, no driver is launched, quit is never called, the stream
\* log of the earlier run is left as it was, no artifact is written, and main
\* exits with status 1.
C15_FalhaDeConfiguracao ==
  (arquivoSeletores.tipo # "dict" /\ Contar("carregar_selectors") = 1) =>
    /\ Falhou("carregar_selectors")
    /\ exc \in {"FileNotFoundError", "JSONDecodeError", "ValueError"}
    /\ arquivoSeletores.tipo = "ausente" => exc = "FileNotFoundError"
    /\ arquivoSeletores.tipo = "lista" => exc = "ValueError"
    /\ eventos = <<Evento("carregar_selectors", 0)>>
    /\ pc \in {"main_except", "terminado"}
    /\ driver = "None"
    /\ sessao = "ausente"
    /\ Contar("quit") = 0
    /\ streamExiste = streamAnterior.existe
    /\ stream = streamAnterior.txt
    /\ saida = <<>>
    /\ pc = "terminado" => codigoSaida = 1

\* C15 witness: the selector file holds a JSON list, the earlier run left a
\* stream log with a data line, and the run has ended.
C15_Witness ==
  /\ pc = "terminado"
  /\ arquivoSeletores.tipo = "lista"
  /\ Len(LinhasDeDados(streamAnterior.txt)) = 1
  /\ stream = streamAnterior.txt
  /\ codigoSaida = 1

\* The rows the loop has taken so far: each one was skipped or extracted.
Iteracoes == Contar("aviso_sem_cpf") + Contar("extrair") +
             (IF pc = "extrair" THEN 1 ELSE 0)

\* The loop ran to its end: the consolidation was reached.
LacoConcluido == Contar("makedirs") + Contar("aviso_sem_resultado") >= 1

\* C16: when every call returns, every run ends and stays ended, a session
\* that was started is closed, and the loop takes each input row once: the
\* number of iterations is the row position, never more than the number of
\* rows, and equal to it when the loop ran to its end.
C16_Terminacao ==
  /\ <>[](pc = "terminado")
  /\ (sessao = "ativa") ~> (sessao = "encerrada")
  /\ [](/\ Iteracoes = idx
        /\ idx <= Len(registros)
        /\ LacoConcluido => idx = Len(registros))

\* C16 witness: a run over two rows in which a wait timed out has ended with
\* the session closed.
C16_Witness ==
  /\ pc = "terminado"
  /\ sessao = "encerrada"
  /\ Len(registros) = 2
  /\ idx = 2
  /\ \E k \in 1..Len(hist) : hist[k].exc = "TimeoutException"

\* The position of the browser call a in the calls of the last extraction,
\* 0 when it was not made.
PosicaoDe(a) ==
  IF \E k \in 1..Len(acoes) : acoes[k] = a
  THEN CHOOSE k \in 1..Len(acoes) : acoes[k] = a
  ELSE 0

\* How many times the browser call a was made in the last extraction.
Vezes(a) == Cardinality({k \in 1..Len(acoes) : acoes[k] = a})

\* C17: in the extraction of a record, once the identifier field is filled
\* the trigger comes next and is the only one: with 'botao_consultar' in the
\* selector map the submit control is looked up and, when found, clicked, and
\* the field is never blurred; without the key the field is blurred and the
\* control is never looked up.  The grid is awaited only after the trigger.
\* When the key is present and the control is not found, the calls stop at
\* the lookup (no click, no blur, no wait for the grid) and the record ends
\* with status 'erro'.  Before the field is filled no trigger is issued.
C17_PoliticaDeDisparo ==
  hist # <<>> =>
    LET p == PosicaoDe("send_keys")
        ultima == hist[Len(hist)]
    IN /\ \A a \in {"send_keys", "find_botao_consultar", "click", "blur",
                    "wait_grid"} : Vezes(a) <= 1
       /\ p = 0 =>
            /\ Vezes("find_botao_consultar") + Vezes("click") + Vezes("blur")
                 + Vezes("wait_grid") = 0
            /\ ultima.exc \in {"KeyError", "TimeoutException"}
       /\ p # 0 =>
            /\ p = 3 /\ Len(acoes) > p
            /\ "botao_consultar" \in selectors <=>
                 acoes[p + 1] = "find_botao_consultar"
            /\ "botao_consultar" \notin selectors <=> acoes[p + 1] = "blur"
            /\ "botao_consultar" \in selectors => Vezes("blur") = 0
            /\ "botao_consultar" \notin selectors =>
                 Vezes("find_botao_consultar") + Vezes("click") = 0
            /\ Vezes("click") = 1 => acoes[p + 2] = "click"
            /\ Vezes("wait_grid") = 1 =>
                 /\ Vezes("click") + Vezes("blur") = 1
                 /\ acoes[Len(acoes)] = "wait_grid"
                 /\ PosicaoDe("wait_grid") =
                      1 + PosicaoDe("click") + PosicaoDe("blur")
            /\ ultima.exc = "none" =>
                 Vezes("wait_grid") = 1 /\ Vezes("click") + Vezes("blur") = 1
            /\ ultima.exc = "NoSuchElementException" <=>
                 ("botao_consultar" \in selectors /\ Vezes("click") = 0)
            /\ ultima.exc = "NoSuchElementException" =>
                 /\ acoes = <<"wait_campo_cpf", "clear", "send_keys",
                              "find_botao_consultar">>
                 /\ status = "erro"
                 /\ dados = <<DadosDeErro(ultima.cpf)>>

\* C17 witness: the key is in the map, the field was filled, the control was
\* not found, and the record was logged with status 'erro'.
C17_Witness ==
  /\ hist # <<>>
  /\ "botao_consultar" \in selectors
  /\ hist[Len(hist)].exc = "NoSuchElementException"
  /\ PosicaoDe("send_keys") = 3
  /\ Len(LinhasDeDados(stream)) = Len(hist)
  /\ StatusDaLinha(LinhasDeDados(stream)[Len(hist)]) = <<"erro">>

\* C18: the input is loaded only after the driver was started and the login
\* and the navigation returned; if the input file is missing, is not a
\* workbook or has no 'CPF' column, carregar_entrada raises: no row is taken,
\* the stream log holds its header and nothing else, no artifact is written,
\* the driver is released once by the finally clause, and main exits with
\* status 1.
C18_FalhaDeEntrada ==
  /\ Contar("carregar_entrada") <= 1
  /\ Contar("carregar_entrada") = 1 =>
       /\ Len(eventos) >= 6
       /\ eventos[3].op = "iniciar_driver"
       /\ eventos[4].op = "login"
       /\ eventos[5].op = "navegar"
       /\ eventos[6].op = "carregar_entrada"
       /\ driver = "Edge"
       /\ LoginExc(selectors, ChavesLogin) = "none"
       /\ NavegarExc(selectors, ChavesNavegacao) = "none"
  /\ (arquivoEntrada.tipo # "planilha" /\ Contar("carregar_entrada") = 1) =>
       /\ Falhou("carregar_entrada")
       /\ exc = CarregarEntradaExc(arquivoEntrada)
       /\ exc \in {"FileNotFoundError", "BadZipFile", "ValueError"}
       /\ pc \in {"finally", "main_except", "terminado"}
       /\ registros = <<>> /\ idx = 0
       /\ hist = <<>> /\ resultados = <<>>
       /\ Contar("extrair") + Contar("aviso_sem_cpf")
            + Contar("append_streaming") = 0
       /\ streamExiste /\ stream = Cabecalho
       /\ saida = <<>>
       /\ Contar("makedirs") + Contar("to_excel") = 0
       /\ Contar("quit") = (IF pc = "finally" THEN 0 ELSE 1)
       /\ pc # "finally" =>
            sessao = "encerrada" /\ eventos[Len(eventos)].op = "quit"
       /\ pc = "terminado" => codigoSaida = 1

\* C18 witness: the input sheet has no 'CPF' column, the session had been
\* established, and the run ended with the driver released and status 1.
C18_Witness ==
  /\ pc = "terminado"
  /\ arquivoEntrada.tipo = "sem_coluna"
  /\ Falhou("carregar_entrada")
  /\ Contar("login") = 1 /\ Contar("navegar") = 1
  /\ Contar("quit") = 1
  /\ stream = Cabecalho
  /\ codigoSaida = 1

\* C19, as stated: from the start of the loop on, the data lines of the
\* stream log, as a reader of the file finds them, match, identifier and
\* status, the first results in memory, and the results are as many as the
\* lines or one more; when the append fails for a record, its result is in
\* memory and the log has no line for it, no artifact is written and the
\* driver is released.
C19_LogEResultados ==
  /\ EntradaCarregada =>
       LET ls == LinhasDeDados(stream) IN
       /\ Len(ls) <= Len(resultados)
       /\ Len(resultados) <= Len(ls) + 1
       /\ \A k \in 1..Len(ls) :
            /\ IdDaLinha(ls[k]) = resultados[k].CPF
            /\ StatusDaLinha(ls[k]) = <<resultados[k].Status>>
  /\ Falhou("append_streaming") =>
       /\ Len(resultados) = Len(hist)
       /\ Len(LinhasDeDados(stream)) = Len(resultados) - 1
       /\ saida = <<>>
       /\ Contar("to_excel") = 0
       /\ pc # "finally" => sessao = "encerrada"

====
